---- MODULE Spec2Model ----
(***************************************************************************)
(* Model of cameras_mcp_web.py: the tools of the camera MCP server         *)
(* (list_cameras, get_camera_status, analyze_camera_performance,           *)
(* compare_cameras, search_infractions, get_monthly_report) over the       *)
(* weekly JSON files of one month.                                         *)
(*                                                                         *)
(* One request runs at a time.  A step of the model is what the coroutine  *)
(* does between two awaits: one fetch completes and the code runs up to    *)
(* the next fetch or to its return.                                        *)
(*                                                                         *)
(* Python values:                                                          *)
(*   dict            a sequence of [k, v] entries with distinct keys, in   *)
(*                   insertion order (the order .items() iterates)         *)
(*   Optional[x]     [some |-> BOOLEAN, v |-> x]                           *)
(*   str (dates)     a tuple of character codes, compared as Python        *)
(*                   compares strings (lexicographically)                  *)
(*   float           an exact rational [num, den]; round(x, 2) is the      *)
(*                   integer number of hundredths                          *)
(***************************************************************************)
EXTENDS Integers, Sequences, FiniteSets, TLC

\* ------------------------------------------------------------------ bounds

\* range(1, 6) in get_available_weeks: the candidate weeks of a month.
MaxWeeksInMonth == 5

\* Only weeks 1..LastDataWeek may have a file at the data source; the later
\* weeks of the month always answer 404.
LastDataWeek == 2

\* calculate_statistics called on its own: lists of up to MaxLen values, each
\* in 0..MaxValue.
MaxLen == 3
MaxValue == 3

Weeks == 1..MaxWeeksInMonth

\* ------------------------------------------------------------- Python values

NoneInt == [some |-> FALSE, v |-> 0]
SomeInt(n) == [some |-> TRUE, v |-> n]
NoneStr == [some |-> FALSE, v |-> ""]
SomeStr(s) == [some |-> TRUE, v |-> s]
NoneDate == [some |-> FALSE, v |-> <<>>]
SomeDate(d) == [some |-> TRUE, v |-> d]

\* Truthiness of an Optional[int] / Optional[str]: None, 0 and "" are falsy.
TruthyInt(o) == o.some /\ o.v # 0
TruthyStr(o) == o.some /\ o.v # ""
TruthyDate(o) == o.some /\ o.v # <<>>

\* Python's str comparison a < b, on tuples of character codes.
RECURSIVE StrLess(_, _)
StrLess(a, b) ==
    IF b = <<>> THEN FALSE
    ELSE IF a = <<>> THEN TRUE
    ELSE IF Head(a) # Head(b) THEN Head(a) < Head(b)
    ELSE StrLess(Tail(a), Tail(b))

\* dict: key in d, d[k], d.get(k, default), d[k] = v, d.keys(), d.values()
DictHas(d, k) == \E i \in 1..Len(d) : d[i].k = k
DictIndex(d, k) == CHOOSE i \in 1..Len(d) : d[i].k = k
DictGet(d, k) == d[DictIndex(d, k)].v
DictGetOr(d, k, default) == IF DictHas(d, k) THEN DictGet(d, k) ELSE default
DictSet(d, k, val) ==
    IF DictHas(d, k)
    THEN [d EXCEPT ![DictIndex(d, k)] = [k |-> k, v |-> val]]
    ELSE Append(d, [k |-> k, v |-> val])
DictKeys(d) == {d[i].k : i \in 1..Len(d)}

\* sum(d.values())
RECURSIVE SumValues(_)
SumValues(d) == IF d = <<>> THEN 0 ELSE Head(d).v + SumValues(Tail(d))

\* sum(list)
RECURSIVE SumSeq(_)
SumSeq(s) == IF s = <<>> THEN 0 ELSE Head(s) + SumSeq(Tail(s))

\* The sort keys of the three sorts of the program, as "a goes strictly before b":
\*   "metric"  comparisons.sort(key=metric_value, reverse=True)
\*   "date"    matches.sort(key=(date, -infractions))
\*   "total"   sorted(cameras.items(), key=total_infractions, reverse=True)
\* A float key is an exact rational [num, den] with den > 0.
RatLess(x, y) == x.num * y.den < y.num * x.den

\* The sorts with the search's second key ascending: -x["infractions"] written
\* without its minus sign.
SortBeforeAscendingCount(order, a, b) ==
    CASE order = "metric" -> RatLess(b.metric_value, a.metric_value)
      [] order = "date" ->
            \/ StrLess(a.date, b.date)
            \/ a.date = b.date /\ a.infractions < b.infractions
      [] order = "total" -> b.v.total_infractions < a.v.total_infractions

SortBefore(order, a, b) ==
    CASE order = "metric" -> RatLess(b.metric_value, a.metric_value)
      [] order = "date" ->
            \/ StrLess(a.date, b.date)
            \/ a.date = b.date /\ -a.infractions < -b.infractions
      [] order = "total" -> b.v.total_infractions < a.v.total_infractions

\* An insertion that puts an element before the elements with an equal key: the
\* sort is no longer stable.
RECURSIVE InsertBeforeEqual(_, _, _)
InsertBeforeEqual(sorted, x, order) ==
    IF sorted = <<>> THEN <<x>>
    ELSE IF ~SortBefore(order, Head(sorted), x) THEN <<x>> \o sorted
    ELSE <<Head(sorted)>> \o InsertBeforeEqual(Tail(sorted), x, order)

\* list.sort / sorted: a stable sort; elements with equal keys keep their order.
RECURSIVE StableInsert(_, _, _)
StableInsert(sorted, x, order) ==
    IF sorted = <<>> THEN <<x>>
    ELSE IF SortBefore(order, x, Head(sorted)) THEN <<x>> \o sorted
    ELSE <<Head(sorted)>> \o StableInsert(Tail(sorted), x, order)

RECURSIVE StableSort(_, _)
StableSort(s, order) ==
    IF s = <<>> THEN <<>>
    ELSE StableInsert(StableSort(SubSeq(s, 1, Len(s) - 1), order), s[Len(s)], order)

\* --------------------------------------------------------------- the data

\* Dates as they appear as keys of the "infractions" and "frames" objects: the
\* texts "05", "06", "1", "01-05" and "01-06".  A character's code is counted
\* from the code of "0", which makes "-" the code -3.
D05 == <<0, 5>>
D06 == <<0, 6>>
D1 == <<1>>
D0105 == <<0, 1, -3, 0, 5>>
D0106 == <<0, 1, -3, 0, 6>>
Dates == {D05, D06, D1, D0105, D0106}

AllFields == {"camera", "uptime", "used_storage", "total", "infractions", "frames"}

\* One camera's object in a semanaN.json file; `fields` are the keys it has.
Observation(fields, total, infractions, frames) ==
    [fields |-> fields, camera |-> "Cam", uptime |-> " up ", used_storage |-> "1G",
     total |-> total, infractions |-> infractions, frames |-> frames]

E(k, v) == [k |-> k, v |-> v]

ObsBusy == Observation(AllFields, 3, <<E(D06, 2), E(D05, 1)>>, <<E(D05, 4), E(D06, 6)>>)
ObsOdd == Observation(AllFields, 1, <<E(D05, 2)>>, <<E(D1, 3)>>)
ObsNoFrames == Observation(AllFields, 3, <<E(D05, 1), E(D1, 0)>>, <<E(D05, 0)>>)
ObsBare == Observation(AllFields \ {"infractions", "frames"}, 0, <<>>, <<>>)
ObsOne == Observation(AllFields, 2, <<E(D06, 1)>>, <<E(D06, 1)>>)
ObsNoName == Observation(AllFields \ {"camera"}, 2, <<E(D05, 1)>>, <<E(D05, 2)>>)
ObsTen ==
    Observation(AllFields, 10, <<E(D0105, 4), E(D0106, 6)>>, <<E(D0105, 40), E(D0106, 60)>>)

\* The contents a week's file may have: a dict camera id -> observation.
RecordSets ==
    { <<>>,
      <<E("A", ObsBusy)>>,
      <<E("A", ObsOdd), E("B", ObsBusy)>>,
      <<E("B", ObsNoFrames), E("A", ObsBusy)>>,
      <<E("A", ObsNoName), E("B", ObsBusy)>>,
      <<E("B", ObsOdd), E("A", ObsNoName)>>,
      <<E("A", ObsBare), E("B", ObsOne)>>,
      <<E("A", ObsTen)>>,
      <<E("A", ObsBusy), E("B", ObsOdd), E("C", ObsNoFrames)>> }

\* What the data source holds for a week: no file (404) or a file's JSON.
NotFound == [none |-> TRUE, items |-> <<>>]
Found(rs) == [none |-> FALSE, items |-> rs]

\* The test left out: whatever the fetch answers is taken as a record set.
TruthyUnchecked(data) == TRUE

\* `if data:` -- None and {} are both falsy.
Truthy(data) == ~data.none /\ data.items # <<>>

Sources ==
    { s \in [Weeks -> {NotFound} \cup {Found(rs) : rs \in RecordSets}] :
        \A w \in Weeks : w > LastDataWeek => s[w] = NotFound }

\* ------------------------------------------------------------- statistics

\* round(): num/den (num >= 0, den > 0) to the nearest integer, ties to even.
RoundHalfEven(num, den) ==
    LET q == num \div den
        r == num % den
    IN  IF 2 * r < den THEN q
        ELSE IF 2 * r > den THEN q + 1
        ELSE IF q % 2 = 0 THEN q ELSE q + 1

\* round(num/den, 2), as a number of hundredths.
Round2(num, den) == RoundHalfEven(num * 100, den)

\* sorted(values), for a list of integers.
RECURSIVE InsertInt(_, _)
InsertInt(sorted, x) ==
    IF sorted = <<>> THEN <<x>>
    ELSE IF x < Head(sorted) THEN <<x>> \o sorted
    ELSE <<Head(sorted)>> \o InsertInt(Tail(sorted), x)

RECURSIVE SortInts(_)
SortInts(s) == IF s = <<>> THEN <<>> ELSE InsertInt(SortInts(Tail(s)), Head(s))

\* The median taken from the list as given, without sorting it.
MedianTwiceUnsorted(values) ==
    LET n == Len(values)
    IN  IF n % 2 = 1 THEN 2 * values[(n + 1) \div 2]
        ELSE values[n \div 2] + values[n \div 2 + 1]

\* statistics.median(values) * 2, for a non-empty list: the middle element
\* twice, or the sum of the two middle elements.
MedianTwice(values) ==
    LET srt == SortInts(values)
        n == Len(srt)
    IN  IF n % 2 = 1 THEN 2 * srt[(n + 1) \div 2]
        ELSE srt[n \div 2] + srt[n \div 2 + 1]

\* The empty list answered with -1, "no value", for every statistic.
EmptyStatisticsUndefined == [mean |-> -1, median |-> -1, min |-> -1, max |-> -1, total |-> -1]

\* `if not values: return {"mean": 0, "median": 0, "min": 0, "max": 0, "total": 0}`
EmptyStatistics == [mean |-> 0, median |-> 0, min |-> 0, max |-> 0, total |-> 0]

\* calculate_statistics(values): mean and median are numbers of hundredths
\* (round(., 2)); min, max and total are exact.
calculate_statistics(values) ==
    IF values = <<>>
    THEN EmptyStatistics
    ELSE LET srt == SortInts(values)
         IN  [mean |-> Round2(SumSeq(values), Len(values)),
              median |-> Round2(MedianTwice(values), 2),
              min |-> srt[1],
              max |-> srt[Len(srt)],
              total |-> SumSeq(values)]

\* The guard off by one: a total of one frame counts as none.
RoundedEfficiencyGuardOne(infractions, frames) ==
    IF frames > 1 THEN Round2(infractions * 100, frames) ELSE 0

\* round(infractions / frames * 100, 2) if frames > 0 else 0, in hundredths.
RoundedEfficiency(infractions, frames) ==
    IF frames > 0 THEN Round2(infractions * 100, frames) ELSE 0

\* The ratio without its `* 100`: a fraction, not a percentage.
EfficiencyAsFraction(infractions, frames) ==
    IF frames > 0 THEN [num |-> infractions, den |-> frames]
    ELSE [num |-> 0, den |-> 1]

\* (infractions / frames * 100) if frames > 0 else 0, as an exact rational.
Efficiency(infractions, frames) ==
    IF frames > 0 THEN [num |-> infractions * 100, den |-> frames]
    ELSE [num |-> 0, den |-> 1]

\* --------------------------------------------------------------- the state

VARIABLES
    source,        \* the data source: week -> NotFound or Found(record set)
    removed,       \* the weeks whose file was removed while a request was running
    fetched,       \* week -> what the tool's own fetch of the week returned (`data`)
    pc,            \* "idle", "weeks" (in get_available_weeks), "fetch" (of available[idx]), "done"
    tool,          \* the tool that was called
    params,        \* its validated input model
    week,          \* get_available_weeks: the week probed next
    available,     \* available_weeks / weeks_to_analyze
    idx,           \* the position in `available` of the week fetched next
    all_data,      \* analyze_camera_performance: camera id -> rollup
    analysis,      \* analyze_camera_performance: camera id -> statistics
    cameras_info,  \* list_cameras
    status,        \* get_camera_status: the camera's object
    comparisons,   \* compare_cameras
    matches,       \* search_infractions
    month_data,    \* get_monthly_report
    report,        \* get_monthly_report: what is rendered from month_data
    result,        \* "pending", "ok", "nodata" (a "No data found" / "not found" text), "error"
    error,         \* the exception caught by the tool's except clause, or "none"
    response,      \* the data the returned text renders: <<>> or <<data>>
    values,        \* calculate_statistics called on its own: its argument
    stats          \* calculate_statistics called on its own: <<>> or <<its answer>>

vars == <<source, removed, fetched, pc, tool, params, week, available, idx,
          all_data, analysis, cameras_info, status, comparisons, matches,
          month_data, report, result, error, response, values, stats>>

outputs == <<analysis, cameras_info, status, comparisons, report>>

NoParams ==
    [week_number |-> NoneInt, camera_id |-> NoneStr, metric |-> "",
     date |-> NoneDate, min_infractions |-> NoneInt, max_infractions |-> NoneInt,
     include_daily |-> FALSE, response_format |-> "markdown"]

EmptyMonth ==
    [total_infractions |-> 0, total_frames |-> 0, cameras |-> <<>>,
     daily_totals |-> <<>>, week_summaries |-> <<>>]

NoReport ==
    [efficiency |-> 0, weeks_available |-> 0, cameras_active |-> 0,
     week_efficiency |-> <<>>, camera_rankings |-> <<>>, top |-> <<>>]

\* The texts "❌ No data found ..." and f"❌ Error: {str(e)}" render no data.
NoData == <<>>

\* The locals of a tool before it is called, and no file removed or fetched.
Fresh ==
    /\ removed = {}
    /\ fetched = [w \in Weeks |-> NotFound]
    /\ tool = "none"
    /\ params = NoParams
    /\ week = 1
    /\ available = <<>>
    /\ idx = 1
    /\ all_data = <<>>
    /\ analysis = <<>>
    /\ cameras_info = <<>>
    /\ status = <<>>
    /\ comparisons = <<>>
    /\ matches = <<>>
    /\ month_data = EmptyMonth
    /\ report = NoReport
    /\ result = "pending"
    /\ error = "none"
    /\ response = NoData

Init ==
    /\ source \in Sources
    /\ pc = "idle"
    /\ Fresh
    /\ values = <<>>
    /\ stats = <<>>

\* A tool is called with input p: its locals are fresh, and it either awaits
\* get_available_weeks ("weeks") or fetches the weeks it was given.
Call(name, p, weeks) ==
    /\ pc = "idle"
    /\ tool' = name
    /\ params' = p
    /\ available' = weeks
    /\ pc' = IF weeks = <<>> THEN "weeks" ELSE "fetch"
    /\ UNCHANGED <<values, stats, source, removed, fetched, week, idx, all_data, analysis,
                   cameras_info, status, comparisons, matches, month_data, report,
                   result, error, response>>

\* The except clause ending in `raise`: the exception leaves the tool.
ReturnOrRaise(kind, exc, data) ==
    /\ pc' = "done"
    /\ result' = IF kind = "error" THEN "raised" ELSE kind
    /\ error' = exc
    /\ response' = data

\* return <text>: the tool ends with `kind` and a text that renders `data`; an
\* exception caught by the tool's `except Exception` ends it with "error", the
\* exception's kind and the text f"❌ Error: {str(e)}".
Return(kind, exc, data) ==
    /\ pc' = "done"
    /\ result' = kind
    /\ error' = exc
    /\ response' = data

\* ---------------------------------------------------------- the data source

\* The files are fetched one request at a time from a repository that others
\* write to: between two fetches of a running tool a week's file may be removed.
file_removed ==
    /\ pc \in {"weeks", "fetch"}
    /\ \E w \in Weeks :
          /\ source[w] # NotFound
          /\ source' = [source EXCEPT ![w] = NotFound]
          /\ removed' = removed \cup {w}
    /\ UNCHANGED <<values, stats, fetched, pc, tool, params, week, available, idx, all_data, analysis,
                   cameras_info, status, comparisons, matches, month_data, report,
                   result, error, response>>

\* ------------------------------------------------------ get_available_weeks

\* A `break` at the first week without data, instead of going on to the next.
LastProbeOrMissing(wk, data) == wk >= MaxWeeksInMonth \/ ~Truthy(data)

\* `for week in range(1, 6)` ends after the last candidate week.
LastProbe(wk, data) == wk >= MaxWeeksInMonth

\* One iteration of get_available_weeks: fetch the week's file and keep the
\* week if the answer is truthy.  After the last week the caller goes on: it
\* returns "No data found" for an empty list and starts its loop otherwise.
get_available_weeks ==
    /\ pc = "weeks"
    /\ \E fails \in BOOLEAN :
         IF fails
         THEN /\ Return("error", "http", NoData)
              /\ UNCHANGED <<week, available, idx>>
         ELSE LET data == source[week]
                  avail == IF Truthy(data) THEN Append(available, week) ELSE available
              IN  /\ available' = avail
                  /\ IF ~LastProbe(week, data)
                     THEN /\ week' = week + 1
                          /\ UNCHANGED <<pc, idx, result, error, response>>
                     ELSE IF avail = <<>>
                     THEN /\ Return("nodata", "none", NoData)
                          /\ UNCHANGED <<week, idx>>
                     ELSE /\ pc' = "fetch"
                          /\ idx' = 1
                          /\ UNCHANGED <<week, result, error, response>>
    /\ UNCHANGED <<values, stats, source, removed, fetched, tool, params, all_data, analysis,
                   cameras_info, status, comparisons, matches, month_data, report>>

\* ------------------------------------------------ analyze_camera_performance

\* camera_data.get(field, {})
ObsGet(camera_data, field) ==
    IF field \in camera_data.fields THEN camera_data[field] ELSE <<>>

\* The merge with `=` in place of `+=`: a later week's count replaces the sum.
RECURSIVE MergeDailyOverwrite(_, _)
MergeDailyOverwrite(acc, daily) ==
    IF daily = <<>> THEN acc
    ELSE MergeDailyOverwrite(DictSet(acc, Head(daily).k, Head(daily).v), Tail(daily))

\* for date, count in daily.items(): acc[date] = acc.get(date, 0) + count
RECURSIVE MergeDaily(_, _)
MergeDaily(acc, daily) ==
    IF daily = <<>> THEN acc
    ELSE MergeDaily(DictSet(acc, Head(daily).k, DictGetOr(acc, Head(daily).k, 0) + Head(daily).v),
                    Tail(daily))

NewRollup(name) ==
    [name |-> name, weeks |-> <<>>, infractions |-> <<>>, frames |-> <<>>,
     daily_infractions |-> <<>>, daily_frames |-> <<>>]

\* The body of `for camera_id, camera_data in data.items()` for one camera that
\* passed the filter; err is the KeyError of a missing "camera" or "total".
AnalyzeCamera(acc, wk, camera_id, camera_data) ==
    IF ~DictHas(acc, camera_id) /\ "camera" \notin camera_data.fields
    THEN [err |-> TRUE, all_data |-> acc]
    ELSE LET d1 == IF DictHas(acc, camera_id) THEN acc
                   ELSE DictSet(acc, camera_id, NewRollup(camera_data.camera))
             e1 == [DictGet(d1, camera_id) EXCEPT !.weeks = Append(@, wk)]
         IN  IF "total" \notin camera_data.fields
             THEN [err |-> TRUE, all_data |-> DictSet(d1, camera_id, e1)]
             ELSE [err |-> FALSE,
                   all_data |-> DictSet(d1, camera_id,
                       [e1 EXCEPT
                          !.infractions = Append(@, camera_data.total),
                          !.daily_infractions =
                              MergeDaily(@, ObsGet(camera_data, "infractions")),
                          !.daily_frames =
                              MergeDaily(@, ObsGet(camera_data, "frames"))])]

\* The filter ignored: no camera is skipped.
FilterIgnored(camera_filter, camera_id) == FALSE

\* `if params.camera_id and camera_id != params.camera_id: continue`
FilteredOut(camera_filter, camera_id) ==
    TruthyStr(camera_filter) /\ camera_id # camera_filter.v

\* The loop over one week's cameras; it stops at the first KeyError.
RECURSIVE AnalyzeWeek(_, _, _, _)
AnalyzeWeek(acc, wk, items, camera_filter) ==
    IF items = <<>> THEN [err |-> FALSE, all_data |-> acc]
    ELSE IF FilteredOut(camera_filter, Head(items).k)
    THEN AnalyzeWeek(acc, wk, Tail(items), camera_filter)
    ELSE LET r == AnalyzeCamera(acc, wk, Head(items).k, Head(items).v)
         IN  IF r.err THEN r
             ELSE AnalyzeWeek(r.all_data, wk, Tail(items), camera_filter)

\* mean(d.values()) rounded to 2 places (hundredths), 0 for an empty dict.
DailyAvg(daily) ==
    IF daily = <<>> THEN 0 ELSE Round2(SumValues(daily), Len(daily))

\* analysis[camera_id] for every camera of all_data.
Analysis(acc) ==
    [i \in 1..Len(acc) |->
        E(acc[i].k,
          [name |-> acc[i].v.name,
           weeks_analyzed |-> Len(acc[i].v.weeks),
           infraction_stats |-> calculate_statistics(acc[i].v.infractions),
           daily_infraction_avg |-> DailyAvg(acc[i].v.daily_infractions),
           daily_frame_avg |-> DailyAvg(acc[i].v.daily_frames),
           efficiency |-> RoundedEfficiency(SumValues(acc[i].v.daily_infractions),
                                            SumValues(acc[i].v.daily_frames))])]

AnalyzeParams ==
    { [NoParams EXCEPT !.week_number = w, !.camera_id = c] :
        w \in {NoneInt} \cup {SomeInt(n) : n \in Weeks},
        c \in {NoneStr, SomeStr(""), SomeStr("A"), SomeStr("B")} }

call_analyze_camera_performance ==
    \E p \in AnalyzeParams :
        Call("analyze_camera_performance", p,
             IF TruthyInt(p.week_number) THEN <<p.week_number.v>> ELSE <<>>)

\* One iteration of `for week in weeks_to_analyze`, and after the last one the
\* rest of the tool.
analyze_camera_performance ==
    /\ pc = "fetch"
    /\ tool = "analyze_camera_performance"
    /\ \E fails \in BOOLEAN :
         /\ fetched' = IF fails THEN fetched
                       ELSE [fetched EXCEPT ![available[idx]] = source[available[idx]]]
         /\ IF fails
            THEN /\ Return("error", "http", NoData)
                 /\ UNCHANGED <<idx, all_data, analysis>>
            ELSE LET data == source[available[idx]]
                     r == IF Truthy(data)
                          THEN AnalyzeWeek(all_data, available[idx], data.items, params.camera_id)
                          ELSE [err |-> FALSE, all_data |-> all_data]
                 IN  /\ all_data' = r.all_data
                     /\ IF r.err
                        THEN /\ Return("error", "KeyError", NoData)
                             /\ UNCHANGED <<idx, analysis>>
                        ELSE IF idx < Len(available)
                        THEN /\ idx' = idx + 1
                             /\ UNCHANGED <<pc, result, error, response, analysis>>
                        ELSE IF r.all_data = <<>>
                        THEN /\ Return("nodata", "none", NoData)
                             /\ UNCHANGED <<idx, analysis>>
                        ELSE /\ analysis' = Analysis(r.all_data)
                             /\ Return("ok", "none", <<Analysis(r.all_data)>>)
                             /\ UNCHANGED idx
    /\ UNCHANGED <<values, stats, source, removed, tool, params, week, available, cameras_info, status,
                   comparisons, matches, month_data, report>>

\* ---------------------------------------------------------------- list_cameras

\* The body of `for camera_id, camera_data in data.items()`: one entry of
\* cameras_info per camera; err is the KeyError of a missing field.
RECURSIVE ListWeek(_, _, _)
ListWeek(acc, wk, items) ==
    IF items = <<>> THEN [err |-> FALSE, cameras_info |-> acc]
    ELSE IF {"camera", "total", "used_storage"} \subseteq Head(items).v.fields
    THEN ListWeek(Append(acc, [id |-> Head(items).k,
                               name |-> Head(items).v.camera,
                               total_infractions |-> Head(items).v.total,
                               storage_used |-> Head(items).v.used_storage,
                               week |-> wk]),
                  wk, Tail(items))
    ELSE [err |-> TRUE, cameras_info |-> acc]

ListParams ==
    { [NoParams EXCEPT !.week_number = w] :
        w \in {NoneInt} \cup {SomeInt(n) : n \in Weeks} }

call_list_cameras ==
    \E p \in ListParams :
        Call("list_cameras", p,
             IF TruthyInt(p.week_number) THEN <<p.week_number.v>> ELSE <<>>)

\* The fetch of the requested week, or one iteration of `for week in
\* available_weeks`, and after the last one the rest of the tool.
list_cameras ==
    /\ pc = "fetch"
    /\ tool = "list_cameras"
    /\ \E fails \in BOOLEAN :
         /\ fetched' = IF fails THEN fetched
                       ELSE [fetched EXCEPT ![available[idx]] = source[available[idx]]]
         /\ IF fails
            THEN /\ Return("error", "http", NoData)
                 /\ UNCHANGED <<idx, cameras_info>>
            ELSE LET data == source[available[idx]]
                     r == IF Truthy(data)
                          THEN ListWeek(cameras_info, available[idx], data.items)
                          ELSE [err |-> FALSE, cameras_info |-> cameras_info]
                 IN  IF TruthyInt(params.week_number) /\ ~Truthy(data)
                     THEN /\ Return("nodata", "none", NoData)
                          /\ UNCHANGED <<idx, cameras_info>>
                     ELSE /\ cameras_info' = r.cameras_info
                          /\ IF r.err
                             THEN /\ Return("error", "KeyError", NoData)
                                  /\ UNCHANGED idx
                             ELSE IF idx < Len(available)
                             THEN /\ idx' = idx + 1
                                  /\ UNCHANGED <<pc, result, error, response>>
                             ELSE /\ Return("ok", "none", <<r.cameras_info>>)
                                  /\ UNCHANGED idx
    /\ UNCHANGED <<values, stats, source, removed, tool, params, week, available, all_data, analysis, status,
                   comparisons, matches, month_data, report>>

\* ----------------------------------------------------------- get_camera_status

\* format_camera_data_markdown reads these keys; json.dumps reads none.
MarkdownFields(camera_data, include_daily) ==
    {"camera", "uptime", "used_storage", "total"}
      \cup (IF include_daily /\ "infractions" \in camera_data.fields
            THEN {"frames"} ELSE {})

StatusParams ==
    { [NoParams EXCEPT !.week_number = SomeInt(n), !.camera_id = SomeStr(c),
                       !.include_daily = d, !.response_format = f] :
        n \in Weeks, c \in {"A", "C"}, d \in BOOLEAN, f \in {"markdown", "json"} }

call_get_camera_status ==
    \E p \in StatusParams : Call("get_camera_status", p, <<p.week_number.v>>)

get_camera_status ==
    /\ pc = "fetch"
    /\ tool = "get_camera_status"
    /\ \E fails \in BOOLEAN :
         /\ fetched' = IF fails THEN fetched
                       ELSE [fetched EXCEPT ![available[idx]] = source[available[idx]]]
         /\ IF fails
            THEN /\ Return("error", "http", NoData)
                 /\ UNCHANGED status
            ELSE LET data == source[available[idx]]
                 IN  IF ~Truthy(data) \/ ~DictHas(data.items, params.camera_id.v)
                     THEN /\ Return("nodata", "none", NoData)
                          /\ UNCHANGED status
                     ELSE LET camera_data == DictGet(data.items, params.camera_id.v)
                          IN  IF params.response_format = "markdown"
                                 /\ ~(MarkdownFields(camera_data, params.include_daily)
                                        \subseteq camera_data.fields)
                              THEN /\ Return("error", "KeyError", NoData)
                                   /\ UNCHANGED status
                              ELSE /\ status' = <<camera_data>>
                                   /\ Return("ok", "none", <<camera_data>>)
    /\ UNCHANGED <<values, stats, source, removed, tool, params, week, available, idx, all_data, analysis,
                   cameras_info, comparisons, matches, month_data, report>>

\* -------------------------------------------------------------- compare_cameras

\* The validator left out: every metric text is accepted.
AnyMetricAccepted(v) == TRUE

\* CompareCamerasInput.validate_metric
validate_metric(v) == v \in {"infractions", "frames", "efficiency"}

\* metric_value of one camera, as a rational; 0 when no branch is taken.
MetricValue(metric, total_infractions, total_frames) ==
    IF metric = "infractions" THEN [num |-> total_infractions, den |-> 1]
    ELSE IF metric = "frames" THEN [num |-> total_frames, den |-> 1]
    ELSE IF metric = "efficiency" THEN Efficiency(total_infractions, total_frames)
    ELSE [num |-> 0, den |-> 1]

\* The loop over the week's cameras: one entry of comparisons per camera.
RECURSIVE CompareWeek(_, _, _)
CompareWeek(acc, items, metric) ==
    IF items = <<>> THEN [err |-> FALSE, comparisons |-> acc]
    ELSE IF {"total", "camera", "used_storage"} \subseteq Head(items).v.fields
    THEN LET camera_data == Head(items).v
             total_infractions == camera_data.total
             total_frames == SumValues(ObsGet(camera_data, "frames"))
         IN  CompareWeek(Append(acc,
                 [id |-> Head(items).k,
                  name |-> camera_data.camera,
                  infractions |-> total_infractions,
                  frames |-> total_frames,
                  efficiency |-> Efficiency(total_infractions, total_frames),
                  metric_value |-> MetricValue(metric, total_infractions, total_frames),
                  storage |-> camera_data.used_storage]),
               Tail(items), metric)
    ELSE [err |-> TRUE, comparisons |-> acc]

CompareParams ==
    { [NoParams EXCEPT !.week_number = SomeInt(n), !.metric = m] :
        n \in Weeks, m \in {"infractions", "frames", "efficiency", "uptime"} }

call_compare_cameras ==
    \E p \in CompareParams :
        /\ validate_metric(p.metric)
        /\ Call("compare_cameras", p, <<p.week_number.v>>)

\* The input model's validator raises: the call is refused and the tool's body
\* never runs.
reject_compare_cameras ==
    /\ pc = "idle"
    /\ \E p \in CompareParams :
        /\ ~validate_metric(p.metric)
        /\ tool' = "compare_cameras"
        /\ params' = p
        /\ Return("rejected", "ValueError", NoData)
    /\ UNCHANGED <<values, stats, source, removed, fetched, week, available, idx, all_data, analysis,
                   cameras_info, status, comparisons, matches, month_data, report>>

compare_cameras ==
    /\ pc = "fetch"
    /\ tool = "compare_cameras"
    /\ \E fails \in BOOLEAN :
         /\ fetched' = IF fails THEN fetched
                       ELSE [fetched EXCEPT ![available[idx]] = source[available[idx]]]
         /\ IF fails
            THEN /\ Return("error", "http", NoData)
                 /\ UNCHANGED comparisons
            ELSE LET data == source[available[idx]]
                     r == CompareWeek(<<>>, data.items, params.metric)
                 IN  IF ~Truthy(data)
                     THEN /\ Return("nodata", "none", NoData)
                          /\ UNCHANGED comparisons
                     ELSE IF r.err
                     THEN /\ comparisons' = r.comparisons
                          /\ Return("error", "KeyError", NoData)
                     ELSE /\ comparisons' = StableSort(r.comparisons, "metric")
                          /\ Return("ok", "none", <<StableSort(r.comparisons, "metric")>>)
    /\ UNCHANGED <<values, stats, source, removed, tool, params, week, available, idx, all_data, analysis,
                   cameras_info, status, matches, month_data, report>>

\* ----------------------------------------------------------- search_infractions

\* The tests with <= and >= in place of < and >: the bounds made exclusive.
MatchesExclusive(p, date, count) ==
    /\ ~(TruthyDate(p.date) /\ date # p.date.v)
    /\ ~(p.min_infractions.some /\ count <= p.min_infractions.v)
    /\ ~(p.max_infractions.some /\ count >= p.max_infractions.v)

\* The three `continue` tests of the scan, negated: the entry is kept.
Matches(p, date, count) ==
    /\ ~(TruthyDate(p.date) /\ date # p.date.v)
    /\ ~(p.min_infractions.some /\ count < p.min_infractions.v)
    /\ ~(p.max_infractions.some /\ count > p.max_infractions.v)

\* The scan keeping one match per (camera, date): an entry whose camera and date
\* already have a match, from an earlier week, is dropped.
RECURSIVE SearchCameraOncePerDate(_, _, _, _, _, _)
SearchCameraOncePerDate(acc, wk, camera_id, camera_data, infractions, p) ==
    IF infractions = <<>> THEN [err |-> FALSE, matches |-> acc]
    ELSE IF \/ ~Matches(p, Head(infractions).k, Head(infractions).v)
            \/ \E i \in 1..Len(acc) :
                  acc[i].camera_id = camera_id /\ acc[i].date = Head(infractions).k
    THEN SearchCameraOncePerDate(acc, wk, camera_id, camera_data, Tail(infractions), p)
    ELSE IF "camera" \notin camera_data.fields
    THEN [err |-> TRUE, matches |-> acc]
    ELSE SearchCameraOncePerDate(
             Append(acc, [week |-> wk,
                          camera_id |-> camera_id,
                          camera_name |-> camera_data.camera,
                          date |-> Head(infractions).k,
                          infractions |-> Head(infractions).v,
                          frames |-> DictGetOr(ObsGet(camera_data, "frames"),
                                               Head(infractions).k, 0)]),
             wk, camera_id, camera_data, Tail(infractions), p)

\* `for date, count in infractions.items()` for one camera; err is the KeyError
\* of a missing "camera" when a match is built.
RECURSIVE SearchCamera(_, _, _, _, _, _)
SearchCamera(acc, wk, camera_id, camera_data, infractions, p) ==
    IF infractions = <<>> THEN [err |-> FALSE, matches |-> acc]
    ELSE IF ~Matches(p, Head(infractions).k, Head(infractions).v)
    THEN SearchCamera(acc, wk, camera_id, camera_data, Tail(infractions), p)
    ELSE IF "camera" \notin camera_data.fields
    THEN [err |-> TRUE, matches |-> acc]
    ELSE SearchCamera(
             Append(acc, [week |-> wk,
                          camera_id |-> camera_id,
                          camera_name |-> camera_data.camera,
                          date |-> Head(infractions).k,
                          infractions |-> Head(infractions).v,
                          frames |-> DictGetOr(ObsGet(camera_data, "frames"),
                                               Head(infractions).k, 0)]),
             wk, camera_id, camera_data, Tail(infractions), p)

RECURSIVE SearchWeek(_, _, _, _)
SearchWeek(acc, wk, items, p) ==
    IF items = <<>> THEN [err |-> FALSE, matches |-> acc]
    ELSE LET r == SearchCamera(acc, wk, Head(items).k, Head(items).v,
                               ObsGet(Head(items).v, "infractions"), p)
         IN  IF r.err THEN r ELSE SearchWeek(r.matches, wk, Tail(items), p)

SearchParams ==
    { [NoParams EXCEPT !.date = d, !.min_infractions = lo, !.max_infractions = hi] :
        d \in {NoneDate, SomeDate(<<>>), SomeDate(D05), SomeDate(D1)},
        lo \in {NoneInt, SomeInt(1), SomeInt(2)},
        hi \in {NoneInt, SomeInt(0), SomeInt(1)} }

call_search_infractions ==
    \E p \in SearchParams : Call("search_infractions", p, <<>>)

\* One iteration of `for week in available_weeks`, and after the last one the
\* sort and the return.
search_infractions ==
    /\ pc = "fetch"
    /\ tool = "search_infractions"
    /\ \E fails \in BOOLEAN :
         /\ fetched' = IF fails THEN fetched
                       ELSE [fetched EXCEPT ![available[idx]] = source[available[idx]]]
         /\ IF fails
            THEN /\ Return("error", "http", NoData)
                 /\ UNCHANGED <<idx, matches>>
            ELSE LET data == source[available[idx]]
                     r == IF Truthy(data)
                          THEN SearchWeek(matches, available[idx], data.items, params)
                          ELSE [err |-> FALSE, matches |-> matches]
                 IN  IF r.err
                     THEN /\ matches' = r.matches
                          /\ Return("error", "KeyError", NoData)
                          /\ UNCHANGED idx
                     ELSE IF idx < Len(available)
                     THEN /\ matches' = r.matches
                          /\ idx' = idx + 1
                          /\ UNCHANGED <<pc, result, error, response>>
                     ELSE /\ matches' = StableSort(r.matches, "date")
                          /\ Return("ok", "none", <<StableSort(r.matches, "date")>>)
                          /\ UNCHANGED idx
    /\ UNCHANGED <<values, stats, source, removed, tool, params, week, available, all_data, analysis,
                   cameras_info, status, comparisons, month_data, report>>

\* ----------------------------------------------------------- get_monthly_report

\* [:5] of the top performers list.
TopPerformers == 5

NewCamera(name) ==
    [name |-> name, total_infractions |-> 0, total_frames |-> 0, weeks_active |-> 0]

NoDaily == [infractions |-> 0, frames |-> 0]

\* for date, count in camera_data.get("infractions", {}).items(): ...
RECURSIVE AddDailyInfractions(_, _)
AddDailyInfractions(daily_totals, infractions) ==
    IF infractions = <<>> THEN daily_totals
    ELSE LET date == Head(infractions).k
             old == DictGetOr(daily_totals, date, NoDaily)
         IN  AddDailyInfractions(
                 DictSet(daily_totals, date,
                         [old EXCEPT !.infractions = @ + Head(infractions).v]),
                 Tail(infractions))

\* The date's frames written with `=` in place of `+=`.
RECURSIVE AddDailyFramesOverwrite(_, _)
AddDailyFramesOverwrite(daily_totals, frames) ==
    IF frames = <<>> THEN daily_totals
    ELSE LET date == Head(frames).k
             old == DictGetOr(daily_totals, date, NoDaily)
         IN  AddDailyFramesOverwrite(
                 DictSet(daily_totals, date, [old EXCEPT !.frames = Head(frames).v]),
                 Tail(frames))

\* for date, count in camera_data.get("frames", {}).items(): ...
RECURSIVE AddDailyFrames(_, _)
AddDailyFrames(daily_totals, frames) ==
    IF frames = <<>> THEN daily_totals
    ELSE LET date == Head(frames).k
             old == DictGetOr(daily_totals, date, NoDaily)
         IN  AddDailyFrames(
                 DictSet(daily_totals, date, [old EXCEPT !.frames = @ + Head(frames).v]),
                 Tail(frames))

\* The body of `for camera_id, camera_data in data.items()` for one camera; wk is
\* [infractions, frames], the week's running sums.
MonthCamera(md, wk, camera_id, camera_data) ==
    IF ~DictHas(md.cameras, camera_id) /\ "camera" \notin camera_data.fields
    THEN [err |-> TRUE, month_data |-> md, wk |-> wk]
    ELSE LET c1 == IF DictHas(md.cameras, camera_id) THEN md.cameras
                   ELSE DictSet(md.cameras, camera_id, NewCamera(camera_data.camera))
         IN  IF "total" \notin camera_data.fields
             THEN [err |-> TRUE, month_data |-> [md EXCEPT !.cameras = c1], wk |-> wk]
             ELSE LET infractions == ObsGet(camera_data, "infractions")
                      frames == ObsGet(camera_data, "frames")
                      cam == [DictGet(c1, camera_id) EXCEPT
                                !.total_infractions = @ + camera_data.total,
                                !.weeks_active = @ + 1,
                                !.total_frames = @ + SumValues(frames)]
                  IN  [err |-> FALSE,
                       month_data |->
                           [md EXCEPT
                              !.cameras = DictSet(c1, camera_id, cam),
                              !.daily_totals =
                                  AddDailyFrames(AddDailyInfractions(@, infractions), frames)],
                       wk |-> [infractions |-> wk.infractions + SumValues(infractions),
                               frames |-> wk.frames + SumValues(frames)]]

RECURSIVE MonthCameras(_, _, _)
MonthCameras(md, wk, items) ==
    IF items = <<>> THEN [err |-> FALSE, month_data |-> md, wk |-> wk]
    ELSE LET r == MonthCamera(md, wk, Head(items).k, Head(items).v)
         IN  IF r.err THEN r ELSE MonthCameras(r.month_data, r.wk, Tail(items))

\* One week of the report: its cameras, then its summary and the month's totals.
MonthWeek(md, week_number, items) ==
    LET r == MonthCameras(md, NoDaily, items)
    IN  IF r.err THEN [err |-> TRUE, month_data |-> r.month_data]
        ELSE [err |-> FALSE,
              month_data |->
                  [r.month_data EXCEPT
                     !.week_summaries =
                         Append(@, [week |-> week_number,
                                    infractions |-> r.wk.infractions,
                                    frames |-> r.wk.frames]),
                     !.total_infractions = @ + r.wk.infractions,
                     !.total_frames = @ + r.wk.frames]]

\* camera_rankings = sorted(month_data["cameras"].items(), ...)
CameraRankings(md) == StableSort(md.cameras, "total")

\* What the report shows beyond month_data: the summary (both formats), and the
\* efficiencies of the weekly breakdown and of the top performers (markdown).
Report(md, weeks, format) ==
    LET rankings == CameraRankings(md)
        top == SubSeq(rankings, 1, IF Len(rankings) < TopPerformers
                                   THEN Len(rankings) ELSE TopPerformers)
    IN  [efficiency |-> RoundedEfficiency(md.total_infractions, md.total_frames),
         weeks_available |-> Len(weeks),
         cameras_active |-> Len(md.cameras),
         camera_rankings |-> rankings,
         week_efficiency |->
             IF format = "markdown"
             THEN [i \in 1..Len(md.week_summaries) |->
                      RoundedEfficiency(md.week_summaries[i].infractions,
                                        md.week_summaries[i].frames)]
             ELSE <<>>,
         top |->
             IF format = "markdown"
             THEN [i \in 1..Len(top) |->
                      [id |-> top[i].k,
                       efficiency |-> RoundedEfficiency(top[i].v.total_infractions,
                                                        top[i].v.total_frames)]]
             ELSE <<>>]

ReportParams ==
    { [NoParams EXCEPT !.response_format = f] : f \in {"markdown", "json"} }

call_get_monthly_report ==
    \E p \in ReportParams : Call("get_monthly_report", p, <<>>)

\* One iteration of `for week in available_weeks`, and after the last one the
\* rest of the tool.
get_monthly_report ==
    /\ pc = "fetch"
    /\ tool = "get_monthly_report"
    /\ \E fails \in BOOLEAN :
         /\ fetched' = IF fails THEN fetched
                       ELSE [fetched EXCEPT ![available[idx]] = source[available[idx]]]
         /\ IF fails
            THEN /\ Return("error", "http", NoData)
                 /\ UNCHANGED <<idx, month_data, report>>
            ELSE LET data == source[available[idx]]
                     r == IF Truthy(data)
                          THEN MonthWeek(month_data, available[idx], data.items)
                          ELSE [err |-> FALSE, month_data |-> month_data]
                 IN  /\ month_data' = r.month_data
                     /\ IF r.err
                        THEN /\ Return("error", "KeyError", NoData)
                             /\ UNCHANGED <<idx, report>>
                        ELSE IF idx < Len(available)
                        THEN /\ idx' = idx + 1
                             /\ UNCHANGED <<pc, result, error, response, report>>
                        ELSE /\ report' = Report(r.month_data, available, params.response_format)
                             /\ Return("ok", "none",
                                       <<[month_data |-> r.month_data,
                                          report |-> Report(r.month_data, available,
                                                            params.response_format)]>>)
                             /\ UNCHANGED idx
    /\ UNCHANGED <<values, stats, source, removed, tool, params, week, available, all_data, analysis,
                   cameras_info, status, comparisons, matches>>

Next ==
    \/ file_removed
    \/ call_list_cameras
    \/ call_get_camera_status
    \/ call_analyze_camera_performance
    \/ call_compare_cameras
    \/ reject_compare_cameras
    \/ call_search_infractions
    \/ call_get_monthly_report
    \/ get_available_weeks
    \/ list_cameras
    \/ get_camera_status
    \/ analyze_camera_performance
    \/ compare_cameras
    \/ search_infractions
    \/ get_monthly_report

Spec == Init /\ [][Next]_vars

\* ------------------------------------------- calculate_statistics on its own

ValueLists == UNION {[1..n -> 0..MaxValue] : n \in 0..MaxLen}

InitStats ==
    /\ source = [w \in Weeks |-> NotFound]
    /\ pc = "stats"
    /\ Fresh
    /\ values \in ValueLists
    /\ stats = <<>>

\* calculate_statistics(values) is called and returns.
call_calculate_statistics ==
    /\ pc = "stats"
    /\ stats' = <<calculate_statistics(values)>>
    /\ pc' = "returned"
    /\ UNCHANGED <<values, source, removed, fetched, tool, params, week, available, idx,
                   all_data, analysis, cameras_info, status, comparisons, matches,
                   month_data, report, result, error, response>>

NextStats == call_calculate_statistics

SpecStats == InitStats /\ [][NextStats]_vars

\* ================================================================ properties

Done == pc = "done"

\* The weeks an all-month tool asks for, or the one week the request names.
Supplied ==
    IF tool \in {"get_camera_status", "compare_cameras"} \/ TruthyInt(params.week_number)
    THEN {params.week_number.v}
    ELSE Weeks

\* The weeks whose cameras the tool's loop has processed completely.
ProcessedWeeks ==
    IF pc = "fetch" THEN SubSeq(available, 1, idx - 1)
    ELSE IF Done /\ result \in {"ok", "nodata"} THEN available
    ELSE <<>>

\* What the tool read: fetched[w] is the record set its fetch of week w returned.
HasCamera(w, cam) == Truthy(fetched[w]) /\ DictHas(fetched[w].items, cam)
CameraOf(w, cam) == DictGet(fetched[w].items, cam)

\* The count that week w's file gave camera cam on date d in its "infractions"
\* or "frames" object; 0 when the week, the camera, the object or the date is absent.
Contribution(w, cam, field, d) ==
    IF HasCamera(w, cam) THEN DictGetOr(ObsGet(CameraOf(w, cam), field), d, 0) ELSE 0

HasDate(w, cam, field, d) ==
    HasCamera(w, cam) /\ DictHas(ObsGet(CameraOf(w, cam), field), d)

RECURSIVE SumContribution(_, _, _, _)
SumContribution(ws, cam, field, d) ==
    IF ws = <<>> THEN 0
    ELSE Contribution(Head(ws), cam, field, d) + SumContribution(Tail(ws), cam, field, d)

SeqToSet(sq) == {sq[i] : i \in 1..Len(sq)}

\* The keys the tools read with camera_data[...]; "infractions" and "frames"
\* are read with .get and may be absent.
RequiredFields == {"camera", "uptime", "used_storage", "total"}

IsWellFormed(camera_data) == RequiredFields \subseteq camera_data.fields

\* Every camera object the tool fetched has its required keys.
WellFormed ==
    \A w \in Supplied : \A i \in 1..Len(fetched[w].items) :
        IsWellFormed(fetched[w].items[i].v)

\* The weeks of keep in ascending order.
RECURSIVE AscendingFrom(_, _)
AscendingFrom(w, keep) ==
    IF w > MaxWeeksInMonth THEN <<>>
    ELSE (IF w \in keep THEN <<w>> ELSE <<>>) \o AscendingFrom(w + 1, keep)

\* The supplied weeks whose fetch returned a record set with cameras.
WeeksWithData == {w \in Supplied : Truthy(fetched[w])}

\* Files are only ever removed, so a week whose file is at the data source now
\* has had that file since the request began.
PresentThroughout(w) == source[w] # NotFound

\* The sum of a week's "infractions" or "frames" counts over all its cameras.
RECURSIVE ItemsTotal(_, _)
ItemsTotal(items, field) ==
    IF items = <<>> THEN 0
    ELSE SumValues(ObsGet(Head(items).v, field)) + ItemsTotal(Tail(items), field)

WeekTotal(w, field) == ItemsTotal(fetched[w].items, field)

RECURSIVE SumWeekTotals(_, _)
SumWeekTotals(ws, field) ==
    IF ws = <<>> THEN 0 ELSE WeekTotal(Head(ws), field) + SumWeekTotals(Tail(ws), field)

CameraIds(w) == DictKeys(fetched[w].items)

\* The (week, camera, date) entries of the infraction objects of the weeks with data.
Triples ==
    { t \in WeeksWithData \X {"A", "B", "C"} \X Dates :
        HasDate(t[1], t[2], "infractions", t[3]) }

MatchesOf(w, cam, d) ==
    { i \in 1..Len(matches) :
        matches[i].week = w /\ matches[i].camera_id = cam /\ matches[i].date = d }

AllMonth == ~TruthyInt(params.week_number)

\* The weeks of the report's per-week summaries, in the order of the list.
SummaryWeeks ==
    [i \in 1..Len(month_data.week_summaries) |-> month_data.week_summaries[i].week]

\* ---- C1

MergedIsSum(merged, cam, field) ==
    \A d \in Dates :
        /\ DictGetOr(merged, d, 0) = SumContribution(ProcessedWeeks, cam, field, d)
        /\ DictHas(merged, d) <=>
               \E w \in SeqToSet(ProcessedWeeks) : HasDate(w, cam, field, d)

\* C1: while analyze_camera_performance builds the device rollup, and when it
\* returns, every camera's merged daily infractions (and daily frames) hold, for
\* every date, the sum of that date's counts over all the weeks processed so
\* far: a later week never replaces an earlier week's count.
C1_AdditiveMerge ==
    (tool = "analyze_camera_performance" /\ pc \in {"fetch", "done"} /\ result # "error")
    => \A i \in 1..Len(all_data) :
          /\ MergedIsSum(all_data[i].v.daily_infractions, all_data[i].k, "infractions")
          /\ MergedIsSum(all_data[i].v.daily_frames, all_data[i].k, "frames")

\* A camera has the same date, with different counts, in the files of two weeks
\* and the rollup holds their sum.
C1_Witness ==
    /\ tool = "analyze_camera_performance" /\ Done /\ result = "ok"
    /\ \E i \in 1..Len(all_data) : \E d \in Dates :
         \E w1, w2 \in SeqToSet(available) :
            /\ w1 < w2
            /\ Contribution(w1, all_data[i].k, "infractions", d) > 0
            /\ Contribution(w2, all_data[i].k, "infractions", d) > 0
            /\ Contribution(w1, all_data[i].k, "infractions", d)
                 # Contribution(w2, all_data[i].k, "infractions", d)
            /\ DictGet(all_data[i].v.daily_infractions, d)
                 = Contribution(w1, all_data[i].k, "infractions", d)
                     + Contribution(w2, all_data[i].k, "infractions", d)

\* ---- C2

\* What a week with data must have contributed to each aggregation.
ContributedToRollup(w) ==
    \A cam \in CameraIds(w) :
        ~FilteredOut(params.camera_id, cam) =>
            /\ result = "ok"
            /\ DictHas(all_data, cam)
            /\ DictHas(analysis, cam)
            /\ w \in SeqToSet(DictGet(all_data, cam).weeks)
            /\ \A d \in Dates :
                 /\ DictGetOr(DictGet(all_data, cam).daily_infractions, d, 0)
                      = SumContribution(AscendingFrom(1, WeeksWithData), cam, "infractions", d)
                 /\ DictGetOr(DictGet(all_data, cam).daily_frames, d, 0)
                      = SumContribution(AscendingFrom(1, WeeksWithData), cam, "frames", d)

ContributedToReport(w) ==
    /\ result = "ok"
    /\ \E i \in 1..Len(month_data.week_summaries) :
          month_data.week_summaries[i] =
              [week |-> w, infractions |-> WeekTotal(w, "infractions"),
               frames |-> WeekTotal(w, "frames")]
    /\ month_data.total_infractions
          = SumWeekTotals(AscendingFrom(1, WeeksWithData), "infractions")
    /\ month_data.total_frames = SumWeekTotals(AscendingFrom(1, WeeksWithData), "frames")
    /\ CameraIds(w) \subseteq DictKeys(month_data.cameras)

ContributedToSearch(w) ==
    /\ result = "ok"
    /\ \A cam \in CameraIds(w) : \A d \in Dates :
          (HasDate(w, cam, "infractions", d)
             /\ Matches(params, d, Contribution(w, cam, "infractions", d)))
          => \E i \in MatchesOf(w, cam, d) :
                /\ matches[i].infractions = Contribution(w, cam, "infractions", d)
                /\ matches[i].frames = Contribution(w, cam, "frames", d)

\* C2: in the device rollup, the range rollup and the search, a week for which
\* the data source answers not-found is skipped and the aggregation goes on:
\* unless a fetch fails or a record is malformed, the tool does not end in an
\* error, every supplied week whose file has cameras and stays at the data
\* source is fetched, and every week fetched with data has contributed all of
\* it to the result.
C2_MissingPeriodSkipped ==
    (Done /\ error # "http" /\ WellFormed
       /\ tool \in {"analyze_camera_performance", "get_monthly_report", "search_infractions"})
    => /\ result # "error"
       /\ \A w \in Supplied : Truthy(source[w]) => fetched[w] = source[w]
       /\ \A w \in WeeksWithData :
            CASE tool = "analyze_camera_performance" -> ContributedToRollup(w)
              [] tool = "get_monthly_report" -> ContributedToReport(w)
              [] tool = "search_infractions" -> ContributedToSearch(w)

\* The monthly report asked for weeks 1 and 2; the fetch of week 1 answered
\* not-found and was skipped, and week 2, fetched after it, is in the report.
C2_Witness ==
    /\ Done /\ tool = "get_monthly_report" /\ result = "ok" /\ WellFormed
    /\ available = <<1, 2>>
    /\ fetched[1] = NotFound
    /\ Truthy(fetched[2])
    /\ month_data.total_frames > 0
    /\ SummaryWeeks = <<2>>

\* ---- C3

AppearsInResult(cam) ==
    /\ result = "ok"
    /\ CASE tool = "analyze_camera_performance" -> DictHas(analysis, cam)
         [] tool = "get_monthly_report" -> DictHas(month_data.cameras, cam)

\* C3: a camera object without one of its keys (such as "camera") fails only
\* that camera's contribution: in the device rollup and in the range rollup the
\* other cameras of the same week still appear in the result.
C3_MalformedDeviceOnly ==
    (Done /\ error # "http"
       /\ tool \in {"analyze_camera_performance", "get_monthly_report"})
    => \A w \in WeeksWithData :
          (\E bad \in CameraIds(w) : ~IsWellFormed(CameraOf(w, bad)))
          => \A cam \in CameraIds(w) :
                (IsWellFormed(CameraOf(w, cam)) /\ ~FilteredOut(params.camera_id, cam))
                => AppearsInResult(cam)

\* ---- C4

NoCriteria ==
    ~params.date.some /\ ~params.min_infractions.some /\ ~params.max_infractions.some

SearchReturned == Done /\ tool = "search_infractions" /\ result = "ok"

\* C4 as stated: with no criteria, search returns exactly one match per
\* (camera, date) pair present in the infraction objects of the scanned weeks.
C4_OnePerDeviceDate ==
    (SearchReturned /\ NoCriteria)
    => /\ \A t \in Triples :
            Cardinality({i \in 1..Len(matches) :
                matches[i].camera_id = t[2] /\ matches[i].date = t[3]}) = 1
       /\ \A i \in 1..Len(matches) :
            <<matches[i].week, matches[i].camera_id, matches[i].date>> \in Triples

\* C4, amended: with no criteria, search returns exactly one match per (week,
\* camera, date) entry of the infraction objects of the scanned weeks, with that
\* entry's count: no entry is left out and none is returned twice.
C4_OnePerPeriodDeviceDate ==
    (SearchReturned /\ NoCriteria)
    => /\ \A t \in Triples :
            /\ Cardinality(MatchesOf(t[1], t[2], t[3])) = 1
            /\ \A i \in MatchesOf(t[1], t[2], t[3]) :
                 matches[i].infractions = Contribution(t[1], t[2], "infractions", t[3])
       /\ \A i \in 1..Len(matches) :
            <<matches[i].week, matches[i].camera_id, matches[i].date>> \in Triples
       /\ Len(matches) = Cardinality(Triples)

\* A camera has the same date in the files of two weeks, and the search with no
\* criteria returns one match for each week.
C4_Witness ==
    /\ SearchReturned /\ NoCriteria
    /\ \E cam \in {"A", "B", "C"} : \E d \in Dates :
          /\ MatchesOf(1, cam, d) # {}
          /\ MatchesOf(2, cam, d) # {}

\* ---- C5

\* The criteria as the claim states them.
Satisfies(p, d, count) ==
    /\ ~p.date.some \/ d = p.date.v
    /\ ~p.min_infractions.some \/ count >= p.min_infractions.v
    /\ ~p.max_infractions.some \/ count <= p.max_infractions.v

\* The criteria with an empty date text counted as no date criterion.
SatisfiesOrEmptyDate(p, d, count) ==
    /\ ~p.date.some \/ p.date.v = <<>> \/ d = p.date.v
    /\ ~p.min_infractions.some \/ count >= p.min_infractions.v
    /\ ~p.max_infractions.some \/ count <= p.max_infractions.v

\* C5 as stated: search returns a match for an entry if and only if the date
\* criterion is unset or equal to the entry's date and the count is within the
\* inclusive bounds that are set.
C5_MatchIffCriteria ==
    SearchReturned
    => /\ \A t \in Triples :
            MatchesOf(t[1], t[2], t[3]) # {}
              <=> Satisfies(params, t[3], Contribution(t[1], t[2], "infractions", t[3]))
       /\ \A i \in 1..Len(matches) :
            <<matches[i].week, matches[i].camera_id, matches[i].date>> \in Triples

\* C5, amended: search returns a match for an entry if and only if the date
\* criterion is unset, or the empty text, or equal to the entry's date, and the
\* count is within the inclusive bounds that are set; when no entry qualifies
\* the result is an empty list of matches, not an error.
C5_MatchIffCriteriaOrEmptyDate ==
    /\ SearchReturned
       => /\ \A t \in Triples :
               MatchesOf(t[1], t[2], t[3]) # {}
                 <=> SatisfiesOrEmptyDate(params, t[3],
                         Contribution(t[1], t[2], "infractions", t[3]))
          /\ \A i \in 1..Len(matches) :
               <<matches[i].week, matches[i].camera_id, matches[i].date>> \in Triples
    /\ (Done /\ tool = "search_infractions" /\ error # "http" /\ WeeksWithData # {}
          /\ \A t \in Triples :
               ~SatisfiesOrEmptyDate(params, t[3],
                    Contribution(t[1], t[2], "infractions", t[3])))
       => (result = "ok" /\ matches = <<>>)

\* A search with both bounds set returns an entry whose count equals the
\* minimum and the maximum, and leaves out another entry of the same week.
C5_Witness ==
    /\ SearchReturned
    /\ params.min_infractions.some /\ params.max_infractions.some
    /\ \E i \in 1..Len(matches) :
          /\ matches[i].infractions = params.min_infractions.v
          /\ matches[i].infractions = params.max_infractions.v
    /\ \E t \in Triples : MatchesOf(t[1], t[2], t[3]) = {}

\* ---- C6

\* C6: the matches search returns are in ascending order of date text and,
\* within a date, in descending order of infraction count.
C6_SearchOrder ==
    SearchReturned
    => \A i \in 1..(Len(matches) - 1) :
          \/ StrLess(matches[i].date, matches[i + 1].date)
          \/ /\ matches[i].date = matches[i + 1].date
             /\ matches[i].infractions >= matches[i + 1].infractions

\* The result has two matches of one date with different counts, and matches of
\* two dates, the later of which was scanned first.
C6_Witness ==
    /\ SearchReturned
    /\ \E i \in 1..(Len(matches) - 1) :
          /\ matches[i].date = matches[i + 1].date
          /\ matches[i].infractions > matches[i + 1].infractions
          /\ matches[i].week > matches[i + 1].week
    /\ \E i \in 1..(Len(matches) - 1) :
          /\ StrLess(matches[i].date, matches[i + 1].date)
          /\ matches[i].week > matches[i + 1].week

\* ---- C7

RankReturned == Done /\ tool = "compare_cameras" /\ result = "ok"

RankedItems == fetched[params.week_number.v].items

RatEqual(x, y) == x.num * y.den = y.num * x.den

\* The selected metric of a camera object, as a rational.
SelectedMetric(metric, camera_data) ==
    LET frames == SumValues(ObsGet(camera_data, "frames"))
    IN  CASE metric = "infractions" -> [num |-> camera_data.total, den |-> 1]
          [] metric = "frames" -> [num |-> frames, den |-> 1]
          [] metric = "efficiency" ->
                IF frames > 0 THEN [num |-> camera_data.total * 100, den |-> frames]
                ELSE [num |-> 0, den |-> 1]

\* C7: the ranking has one entry per camera of the week's record set, each with
\* the selected metric's value, in descending order of that value; cameras with
\* equal values keep the order they have in the record set.
C7_RankOrder ==
    RankReturned
    => /\ Len(comparisons) = Len(RankedItems)
       /\ \A i \in 1..Len(RankedItems) :
            Cardinality({j \in 1..Len(comparisons) :
                comparisons[j].id = RankedItems[i].k}) = 1
       /\ \A j \in 1..Len(comparisons) :
            /\ DictHas(RankedItems, comparisons[j].id)
            /\ RatEqual(comparisons[j].metric_value,
                        SelectedMetric(params.metric, DictGet(RankedItems, comparisons[j].id)))
       /\ \A i, j \in 1..Len(comparisons) :
            i < j =>
              /\ ~RatLess(comparisons[i].metric_value, comparisons[j].metric_value)
              /\ RatEqual(comparisons[i].metric_value, comparisons[j].metric_value)
                   => DictIndex(RankedItems, comparisons[i].id)
                        < DictIndex(RankedItems, comparisons[j].id)

\* A ranking of three cameras in which two are tied and the third, which comes
\* between them in the record set, is ranked after both.
C7_Witness ==
    /\ RankReturned
    /\ Len(comparisons) = 3
    /\ RatEqual(comparisons[1].metric_value, comparisons[2].metric_value)
    /\ RatLess(comparisons[3].metric_value, comparisons[2].metric_value)
    /\ DictIndex(RankedItems, comparisons[3].id) < DictIndex(RankedItems, comparisons[2].id)

\* ---- C8

Abs(x) == IF x < 0 THEN -x ELSE x

\* eff, a number of hundredths, is infractions/frames*100 rounded to two
\* places when there are frames, and 0 when there are none.
IsRoundedEfficiency(eff, infractions, frames) ==
    IF frames > 0 THEN 2 * Abs(eff * frames - infractions * 10000) <= frames
    ELSE eff = 0

\* eff, a rational, is infractions/frames*100 when there are frames, else 0.
IsEfficiency(eff, infractions, frames) ==
    IF frames > 0 THEN eff.num * frames = infractions * 100 * eff.den
    ELSE eff.num = 0

EfficiencyTools == {"analyze_camera_performance", "compare_cameras", "get_monthly_report"}

\* C8: every efficiency the tools compute (per camera in the analysis, per
\* camera in the ranking, for the month, per week and per top performer in the
\* report) is infractions/frames*100 when the frames total is positive and 0
\* when it is 0; unless a fetch fails or a record is malformed no tool ends in
\* an error, whatever the frames totals are.
C8_EfficiencyZeroGuard ==
    /\ (Done /\ tool = "analyze_camera_performance" /\ result = "ok")
       => /\ Len(analysis) = Len(all_data)
          /\ \A i \in 1..Len(analysis) :
               IsRoundedEfficiency(analysis[i].v.efficiency,
                                   SumValues(all_data[i].v.daily_infractions),
                                   SumValues(all_data[i].v.daily_frames))
    /\ RankReturned
       => \A i \in 1..Len(comparisons) :
            /\ IsEfficiency(comparisons[i].efficiency,
                            comparisons[i].infractions, comparisons[i].frames)
            /\ params.metric = "efficiency"
                 => IsEfficiency(comparisons[i].metric_value,
                                 comparisons[i].infractions, comparisons[i].frames)
    /\ (Done /\ tool = "get_monthly_report" /\ result = "ok")
       => /\ IsRoundedEfficiency(report.efficiency, month_data.total_infractions,
                                 month_data.total_frames)
          /\ params.response_format = "markdown"
               => /\ Len(report.week_efficiency) = Len(month_data.week_summaries)
                  /\ Len(report.top) = IF Len(month_data.cameras) < TopPerformers
                                       THEN Len(month_data.cameras) ELSE TopPerformers
          /\ \A i \in 1..Len(report.week_efficiency) :
               IsRoundedEfficiency(report.week_efficiency[i],
                                   month_data.week_summaries[i].infractions,
                                   month_data.week_summaries[i].frames)
          /\ \A i \in 1..Len(report.top) :
               IsRoundedEfficiency(report.top[i].efficiency,
                                   DictGet(month_data.cameras, report.top[i].id).total_infractions,
                                   DictGet(month_data.cameras, report.top[i].id).total_frames)
    /\ (Done /\ tool \in EfficiencyTools /\ error # "http" /\ WellFormed)
       => result # "error"

\* An analysis with a camera that has infractions and no frames, whose
\* efficiency is 0, and a camera with frames, whose efficiency is not 0.
C8_Witness ==
    /\ Done /\ tool = "analyze_camera_performance" /\ result = "ok"
    /\ \E i \in 1..Len(analysis) :
          /\ SumValues(all_data[i].v.daily_frames) = 0
          /\ SumValues(all_data[i].v.daily_infractions) > 0
          /\ analysis[i].v.efficiency = 0
    /\ \E i \in 1..Len(analysis) :
          /\ SumValues(all_data[i].v.daily_frames) > 0
          /\ analysis[i].v.efficiency > 0

\* ---- C9

\* C9: the per-week summary list of the report is in ascending week order and
\* has exactly one entry per week whose file was found: one for every week
\* whose file is at the data source, none for a week whose fetch answered
\* not-found.
C9_OneSummaryPerFoundPeriod ==
    (Done /\ tool = "get_monthly_report" /\ result = "ok")
    => /\ \A i \in 1..(Len(SummaryWeeks) - 1) : SummaryWeeks[i] < SummaryWeeks[i + 1]
       /\ \A w \in Weeks : PresentThroughout(w) => w \in SeqToSet(SummaryWeeks)
       /\ \A w \in SeqToSet(SummaryWeeks) : fetched[w] # NotFound

\* ---- C10

\* C10: when the fetch of the week the request names, or of every week the
\* request covers, answers not-found, the tool returns its "No data found"
\* text (unless a fetch fails): never a normal result.
C10_NotFoundIsNoData ==
    (Done /\ error # "http" /\ result # "rejected"
       /\ \A w \in Supplied : fetched[w] = NotFound /\ source[w] = NotFound)
    => result = "nodata"

\* ---- C11

\* The three metric kinds of the ranking.
MetricKinds == {"infractions", "frames", "efficiency"}

\* C11: a ranking request whose metric is not infractions, frames or efficiency
\* is rejected by the input model before the tool runs: no week is fetched, no
\* entry is ranked and nothing is returned but the rejection; a ranking that is
\* returned was asked with one of the three kinds and every entry's metric
\* value is the value of that kind, never a default.
C11_InvalidMetricRejected ==
    /\ (tool = "compare_cameras" /\ params.metric \notin MetricKinds)
       => /\ Done /\ result = "rejected" /\ error = "ValueError"
          /\ \A w \in Weeks : fetched[w] = NotFound
          /\ comparisons = <<>>
          /\ response = NoData
    /\ RankReturned
       => /\ params.metric \in MetricKinds
          /\ \A j \in 1..Len(comparisons) :
               RatEqual(comparisons[j].metric_value,
                        SelectedMetric(params.metric, DictGet(RankedItems, comparisons[j].id)))

\* A ranking by "uptime" of a week whose file has cameras was rejected.
C11_Witness ==
    /\ Done /\ tool = "compare_cameras" /\ result = "rejected"
    /\ params.metric = "uptime"
    /\ Truthy(source[params.week_number.v])

\* ---- C12

\* get_available_weeks has returned to an all-month tool.
ListingDone ==
    /\ tool \in {"list_cameras", "analyze_camera_performance", "search_infractions",
                 "get_monthly_report"}
    /\ AllMonth
    /\ pc = "fetch" \/ (Done /\ result \in {"ok", "nodata"})

\* C12: get_available_weeks returns, in ascending order and without repeats,
\* exactly the weeks among 1..5 whose file exists at the data source (no file
\* being removed meanwhile), a file with no cameras included.
C12_ListsExactlyExisting ==
    (ListingDone /\ removed = {})
    => available = AscendingFrom(1, {w \in Weeks : source[w] # NotFound})

\* ---- C13

\* The tools that loop over the weeks of the month.
LoopTools ==
    {"list_cameras", "analyze_camera_performance", "search_infractions", "get_monthly_report"}

\* The weeks whose records are in the tool's accumulator.
AggregatedWeeks ==
    CASE tool = "analyze_camera_performance" ->
            UNION {SeqToSet(all_data[i].v.weeks) : i \in 1..Len(all_data)}
      [] tool = "search_infractions" -> {matches[i].week : i \in 1..Len(matches)}
      [] tool = "get_monthly_report" -> SeqToSet(SummaryWeeks)
      [] tool = "list_cameras" -> {cameras_info[i].week : i \in 1..Len(cameras_info)}
      [] OTHER -> {}

\* The tool is in its loop and the fetch of available[idx] has not completed.
LookupPending == pc = "fetch" /\ tool \in LoopTools /\ idx <= Len(available)

\* The loop's fetch of week w has returned a record set with cameras.
LookedUp(w) == fetched[w] # NotFound /\ fetched[w].items # <<>>

ScenarioWeek == Found(<<E("A", ObsTen)>>)

ScenarioFetched ==
    /\ fetched[1] = ScenarioWeek
    /\ \A w \in Weeks \ {1} : fetched[w] = NotFound

\* C14: on the scenario's month the report has total infractions 10, total
\* frames 100 and the week summaries [{week 1, infractions 10, frames 100}],
\* and the ranking of week 1 by efficiency is camera "A" alone with frames 100
\* (the sum of its daily frames) and efficiency 10.
C14_Scenario ==
    /\ (Done /\ tool = "get_monthly_report" /\ result = "ok"
          /\ available = <<1>> /\ ScenarioFetched)
       => /\ month_data.total_infractions = 10
          /\ month_data.total_frames = 100
          /\ month_data.week_summaries = <<[week |-> 1, infractions |-> 10, frames |-> 100]>>
          /\ response = <<[month_data |-> month_data, report |-> report]>>
    /\ (RankReturned /\ params.metric = "efficiency" /\ params.week_number.v = 1
          /\ ScenarioFetched)
       => /\ Len(comparisons) = 1
          /\ comparisons[1].id = "A"
          /\ comparisons[1].frames = 100
          /\ RatEqual(comparisons[1].efficiency, [num |-> 10, den |-> 1])
          /\ RatEqual(comparisons[1].metric_value, [num |-> 10, den |-> 1])
          /\ response = <<comparisons>>

\* The ranking of the scenario's week 1 by efficiency has been returned.
C14_Witness ==
    /\ RankReturned /\ params.metric = "efficiency" /\ params.week_number.v = 1
    /\ ScenarioFetched
    /\ Len(comparisons) = 1

\* The report of the scenario's month has been returned.
C14_ReportReturned ==
    /\ Done /\ tool = "get_monthly_report" /\ result = "ok"
    /\ available = <<1>> /\ ScenarioFetched

\* ---- C15

\* The weeks processed so far in which camera cam is present, in order.
RECURSIVE WeeksPresent(_, _)
WeeksPresent(ws, cam) ==
    IF ws = <<>> THEN <<>>
    ELSE (IF HasCamera(Head(ws), cam) THEN <<Head(ws)>> ELSE <<>>)
           \o WeeksPresent(Tail(ws), cam)

\* The "total" of camera cam in each of the weeks ws.
TotalsOf(ws, cam) == [i \in 1..Len(ws) |-> CameraOf(ws[i], cam).total]

\* The rollup's keys are at most the filter, and each camera's weeks and
\* infractions lists are those of the processed weeks that have the camera.
FilteredRollup ==
    /\ DictKeys(all_data) \subseteq {params.camera_id.v}
    /\ \A i \in 1..Len(all_data) :
          /\ Len(all_data[i].v.weeks) = Len(all_data[i].v.infractions)
          /\ all_data[i].v.weeks = WeeksPresent(ProcessedWeeks, all_data[i].k)
          /\ all_data[i].v.infractions
               = TotalsOf(WeeksPresent(ProcessedWeeks, all_data[i].k), all_data[i].k)

RollupBuilt ==
    tool = "analyze_camera_performance" /\ pc \in {"fetch", "done"} /\ result # "error"

\* C15 as stated: whenever a camera filter is supplied to the device rollup,
\* the rollup has at most the filter as key, and that camera's lists of weeks
\* and of totals have equal length, with one entry per week that has the
\* camera and none for a week that does not.
C15_FilteredRollup ==
    (RollupBuilt /\ params.camera_id.some) => FilteredRollup

\* C15, amended: the same, whenever the camera filter supplied is not the empty
\* text; an empty filter selects every camera, as no filter does.
C15_NonEmptyFilterRollup ==
    /\ (RollupBuilt /\ TruthyStr(params.camera_id)) => FilteredRollup
    /\ (RollupBuilt /\ ~TruthyStr(params.camera_id))
       => \A w \in SeqToSet(ProcessedWeeks) : CameraIds(w) \subseteq DictKeys(all_data)

\* An analysis filtered on camera "B" over two weeks: week 1 has A and B, week 2
\* has A alone, and the rollup holds B alone with week 1 only.
C15_Witness ==
    /\ tool = "analyze_camera_performance" /\ Done /\ result = "ok"
    /\ params.camera_id = SomeStr("B")
    /\ available = <<1, 2>>
    /\ HasCamera(1, "A") /\ HasCamera(1, "B")
    /\ HasCamera(2, "A") /\ ~HasCamera(2, "B")
    /\ DictKeys(all_data) = {"B"}
    /\ DictGet(all_data, "B").weeks = <<1>>

\* ---- C16

StatsReturned == pc = "returned" /\ Len(stats) = 1

\* C16: calculate_statistics of the empty list returns mean, median, min, max
\* and total all 0.
C16_EmptyStatistics ==
    /\ (pc = "returned" /\ values = <<>>)
       => stats = <<[mean |-> 0, median |-> 0, min |-> 0, max |-> 0, total |-> 0]>>
    /\ pc = "returned" => Len(stats) = 1

\* calculate_statistics has returned for the empty list.
C16_Witness == StatsReturned /\ values = <<>>

\* ---- C17

\* sum(S), added from the last element down.
RECURSIVE SumOf(_)
SumOf(S) == IF S = <<>> THEN 0 ELSE S[Len(S)] + SumOf(SubSeq(S, 1, Len(S) - 1))

Least(S) == CHOOSE x \in SeqToSet(S) : \A y \in SeqToSet(S) : x <= y
Greatest(S) == CHOOSE x \in SeqToSet(S) : \A y \in SeqToSet(S) : x >= y

\* m, a number of hundredths, is a median of S: at least half of the elements
\* are at most m and at least half are at least m; for an even length it is
\* the average of the two middle elements.
IsMedian(m, S) ==
    /\ 2 * Cardinality({i \in 1..Len(S) : 100 * S[i] <= m}) >= Len(S)
    /\ 2 * Cardinality({i \in 1..Len(S) : 100 * S[i] >= m}) >= Len(S)
    /\ Len(S) % 2 = 0
         => \E i, j \in 1..Len(S) :
               /\ i # j
               /\ 2 * m = 100 * (S[i] + S[j])
               /\ 2 * Cardinality({k \in 1..Len(S) : S[k] <= S[i] /\ k # j}) >= Len(S)
               /\ 2 * Cardinality({k \in 1..Len(S) : S[k] >= S[j] /\ k # i}) >= Len(S)

\* C17: for a non-empty list S of non-negative integers calculate_statistics
\* returns total = sum(S), min and max the least and greatest element, the
\* mean rounded to two places and the median (for an even length the average
\* of the two middle elements), with min <= mean <= max and min <= median <= max.
C17_StatisticsBounds ==
    (StatsReturned /\ values # <<>>)
    => LET s == stats[1]
       IN  /\ s.total = SumOf(values)
           /\ s.min = Least(values) /\ s.max = Greatest(values)
           /\ 2 * Abs(s.mean * Len(values) - 100 * SumOf(values)) <= Len(values)
           /\ IsMedian(s.median, values)
           /\ 100 * s.min <= s.mean /\ s.mean <= 100 * s.max
           /\ 100 * s.min <= s.median /\ s.median <= 100 * s.max

\* calculate_statistics has returned for an unsorted list of even length whose
\* median and mean are not whole numbers.
C17_Witness ==
    /\ StatsReturned
    /\ values = <<3, 0>>
    /\ stats[1].median = 150 /\ stats[1].mean = 150 /\ stats[1].total = 3

\* ---- C18

\* The sum of field f over a list of records.
RECURSIVE SumField(_, _)
SumField(records, f) ==
    IF records = <<>> THEN 0 ELSE Head(records)[f] + SumField(Tail(records), f)

\* The values of a dict, in order.
DictValues(d) == [i \in 1..Len(d) |-> d[i].v]

\* C18: in get_monthly_report, after any number of weeks and when the report is
\* returned, the month's total infractions equal the sum of the week
\* summaries' infractions and the sum of the daily totals' infractions; the
\* month's total frames equal the sum of the week summaries' frames, the sum of
\* the daily totals' frames and the sum of the cameras' total_frames.
C18_ReportTotalsConsistent ==
    (tool = "get_monthly_report" /\ pc \in {"fetch", "done"} /\ result # "error")
    => /\ month_data.total_infractions = SumField(month_data.week_summaries, "infractions")
       /\ month_data.total_infractions
            = SumField(DictValues(month_data.daily_totals), "infractions")
       /\ month_data.total_frames = SumField(month_data.week_summaries, "frames")
       /\ month_data.total_frames = SumField(DictValues(month_data.daily_totals), "frames")
       /\ month_data.total_frames = SumField(DictValues(month_data.cameras), "total_frames")

\* A report over two weeks with three cameras and several dates, one of them in
\* both weeks.
C18_Witness ==
    /\ Done /\ tool = "get_monthly_report" /\ result = "ok"
    /\ Len(month_data.week_summaries) = 2
    /\ Len(month_data.cameras) = 3
    /\ Len(month_data.daily_totals) >= 3
    /\ month_data.week_summaries[1].frames > 0
    /\ month_data.week_summaries[2].frames > 0
    /\ \E d \in Dates : HasDate(1, "A", "frames", d) /\ HasDate(2, "A", "frames", d)

\* ---- C19

Running == pc \in {"weeks", "fetch"}

Tools ==
    {"list_cameras", "get_camera_status", "analyze_camera_performance",
     "compare_cameras", "search_infractions", "get_monthly_report"}

\* The running tool has a next step: it awaits the fetch of a candidate week in
\* get_available_weeks, or the fetch of a week of its list.
CanResume ==
    \/ pc = "weeks" /\ week \in Weeks
    \/ pc = "fetch" /\ tool \in Tools /\ idx \in 1..Len(available)

\* The fetches the running tool may still make.
Remaining ==
    IF pc = "weeks" THEN 2 * MaxWeeksInMonth + 1 - week
    ELSE IF pc = "fetch" THEN Len(available) + 1 - idx
    ELSE 0

\* What has been aggregated when a fetch fails is in the tool's locals only.
PartialData ==
    \/ all_data # <<>>
    \/ cameras_info # <<>>
    \/ matches # <<>>
    \/ month_data # EmptyMonth

\* C19: every tool that runs ends by returning, whatever its fetches answer: a
\* running tool always has a next step, each step either returns or leaves
\* fewer fetches to make, and a tool ends with its data, with a "No data found"
\* text or with an error text, no exception leaving it.  A fetch that fails
\* with an error other than not-found ends the tool with the error text, which
\* renders none of the data aggregated from the weeks fetched before.
C19_AlwaysReturns ==
    /\ [](/\ Running => CanResume
          /\ Done => result \in {"ok", "nodata", "error", "rejected"}
          /\ error = "http" => (Done /\ result = "error" /\ response = NoData)
          /\ (Done /\ result \in {"error", "nodata", "rejected"}) => response = NoData
          /\ (Done /\ result = "ok") => Len(response) = 1)
    /\ [][(Running /\ source' = source) => (Done' \/ Remaining' < Remaining)]_vars
    /\ [][Remaining' <= Remaining \/ pc = "idle"]_vars

\* The report had aggregated a week when the fetch of the next week failed: it
\* returned the error text, without the data.
C19_Witness ==
    /\ Done /\ tool = "get_monthly_report" /\ error = "http" /\ result = "error"
    /\ idx = 2
    /\ month_data.total_frames > 0
    /\ PartialData
    /\ response = NoData

====
